---- MODULE Spec2Model ----
(***************************************************************************)
(* Model of the real-time translation pipeline:                            *)
(*   src/src/audio_input.py  mic_stream (chunk accumulator)                *)
(*   src/src/translation.py  translate_text (translation context)          *)
(*   src/src/main.py, src/translate_mic.py  worker threads and main        *)
(*                                                                         *)
(* Audio samples are int16 values.  A normalised float sample s/32768.0 is *)
(* the fraction [num |-> s, den |-> 32768], which float32 holds exactly    *)
(* for every int16 s.                                                      *)
(***************************************************************************)
EXTENDS Integers, Sequences, FiniteSets, TLC

\* ------------------------------------------------------------------ bounds
\* Sampling rate, scaled down (samples per second).
RATE == 2
\* Samples delivered by one stream.read, scaled down.
CHUNK_SIZE == 2
\* Number of stream.read calls recorded in one run.
MaxReads == 3
\* Number of translate_text calls in one run of the translation module.
MaxCalls == 3
\* Number of segments the microphone yields before a stop, in a pipeline run.
MaxSegments == 2
\* Number of samples of an argument of mix_audio.
MaxMixLen == 2
\* Number of items put on each input queue of the output stage.
MaxOut == 2
\* Number of notifications sent to the UI.
MaxNotes == 3
\* Number of samples of an argument of transcribe.
MaxAudio == 2

\* --------------------------------------------------------- program constants
FULL_SCALE == 32768
SILENCE_LEVEL == 3
PERCENT == 100
\* original_volume=0.3, in tenths
ORIGINAL_VOLUME_TENTHS == 3
\* "confidence = 0.9", in tenths
CONFIDENCE_TENTHS == 9

\* int16 sample values used: just below and just above the silence gate.
Samples == {983, -984}
\* chunk_duration values, in half seconds.
HalfSeconds == {1, 3}
\* --chunk-duration of a pipeline run, in half seconds.
PipeHalfSeconds == {1}

\* int16 samples of the original audio as little-endian byte pairs:
\* -32768 and 32767.
Int16Bytes == {<<0, 128>>, <<255, 127>>}
\* Samples of a synthesized waveform, in tenths: -1.5, 0.5 and 1.0.
TtsTenths == {-15, 5, 10}

\* Texts are sequences of characters.
Texts == {<<>>, <<" ">>, <<"a">>, <<" ", "a">>}
\* Values the translator can put under the key 'translation'.
Translations == {<<>>, <<"e">>}

VARIABLES
    \* mic_stream
    mic_pc, chunk_samples, noise_reduction, audio_buffer,
    read, segments, yielded,
    \* translation module
    translation_context, tr_pc, tr_text, tr_result, calls,
    \* main and the worker threads
    mode, main_pc, main_i, stop_event, init_failed,
    cap_pc, trans_pc, tl_pc, trans_item, tl_item,
    audio_queue, transcription_queue,
    \* history of the run
    cause, start_log, broke_at, aq_put, aq_got, asr_done,
    tq_put, tq_got, displayed, level_log,
    \* tts.py and mixer.py
    TTS_QUEUE, TTS_AUDIO_QUEUE, ORIGINAL_AUDIO_QUEUE,
    tts_pc, english_text, mixer_pc, tts_audio, original_chunks, played,
    texts_put, originals_put, original_ended,
    \* one call of mix_audio
    mix_pc, original_chunk, tts_chunk, mixed,
    \* CaptionDisplayUI
    message_queue, ui_state, ui_shown, notes_put,
    \* one call of transcribe
    asr_pc, audio_np, recognizer, confidence_threshold, asr_result

micVars == <<mic_pc, chunk_samples, noise_reduction, audio_buffer,
             read, segments, yielded>>

outVars == <<TTS_QUEUE, TTS_AUDIO_QUEUE, ORIGINAL_AUDIO_QUEUE,
             tts_pc, english_text, mixer_pc, tts_audio, original_chunks,
             played, texts_put, originals_put, original_ended>>

mixVars == <<mix_pc, original_chunk, tts_chunk, mixed>>

uiVars == <<message_queue, ui_state, ui_shown, notes_put>>

asrVars == <<asr_pc, audio_np, recognizer, confidence_threshold, asr_result>>

sideVars == <<uiVars, asrVars>>

\* what main and its three worker threads never touch
restVars == <<outVars, mixVars, sideVars>>

\* ----------------------------------------------------------------- helpers
RECURSIVE Flatten(_)
Flatten(ss) == IF ss = <<>> THEN <<>> ELSE Head(ss) \o Flatten(Tail(ss))

Abs(x) == IF x < 0 THEN -x ELSE x

\* np.max(np.abs(a)) of a non-empty array of floats, as a numerator
RECURSIVE MaxAbs(_)
MaxAbs(a) == IF a = <<>> THEN 0
             ELSE LET m == MaxAbs(Tail(a))
                  IN  IF Abs(Head(a).num) > m THEN Abs(Head(a).num) ELSE m

\* int(RATE * chunk_duration), chunk_duration given in half seconds
ChunkSamples(h) == (RATE * h) \div 2

\* int(RATE * 0.5)
noise_sample_count == RATE \div 2

\* All chunks one stream.read can deliver.
AllChunks == [1..CHUNK_SIZE -> Samples]

\* a float32 sample s / 32768.0
Float(s) == [num |-> s, den |-> FULL_SCALE]

\* segment.astype(np.float32) / 32768.0
Normalize(segment) == [i \in 1..Len(segment) |-> Float(segment[i])]

\* apply_noise_reduction: the set of results it can return.  nr.reduce_noise
\* is an external filter: any waveform of the same length.
NoiseReduced(audio_float) ==
    IF Len(audio_float) > noise_sample_count
    THEN [1..Len(audio_float) -> {Float(s) : s \in Samples}]
    ELSE {audio_float}

\* audio_buffer[:chunk_samples]
SegmentWhole(buf, n) == buf
Segment(buf, n) == SubSeq(buf, 1, n)

\* audio_buffer[chunk_samples:]
RemainderDropOne(buf, n) == SubSeq(buf, n + 2, Len(buf))
Remainder(buf, n) == SubSeq(buf, n + 1, Len(buf))

\* the segments mic_stream yields once stream.read has raised: the except
\* clauses log, the finally block closes the stream, nothing is yielded
StreamEndFlush(buf) == IF buf = <<>> THEN <<>> ELSE <<buf>>
StreamEndYield(buf) == <<>>

\* ---------------------------------------------------------------- mic_stream
MicInit ==
    /\ mic_pc = "created"
    /\ chunk_samples \in {ChunkSamples(h) : h \in HalfSeconds}
    /\ noise_reduction \in BOOLEAN
    /\ audio_buffer = <<>>
    /\ read = <<>>
    /\ segments = <<>>
    /\ yielded = <<>>

\* p.open(...) succeeds
MicOpen ==
    /\ mic_pc = "created"
    /\ mic_pc' = "reading"
    /\ UNCHANGED <<chunk_samples, noise_reduction, audio_buffer,
                   read, segments, yielded>>

\* p.open(...) raises: outside the try block, the exception leaves the generator
MicOpenError ==
    /\ mic_pc = "created"
    /\ mic_pc' = "raised"
    /\ UNCHANGED <<chunk_samples, noise_reduction, audio_buffer,
                   read, segments, yielded>>

\* one iteration of the while True loop with the chunk that stream.read returned
MicRead(chunk) ==
    /\ mic_pc = "reading"
    /\ read' = Append(read, chunk)
    /\ LET buf == audio_buffer \o chunk
       IN  IF Len(buf) >= chunk_samples
           THEN LET segment == Segment(buf, chunk_samples)
                    audio_float == Normalize(segment)
                IN  /\ audio_buffer' = Remainder(buf, chunk_samples)
                    /\ segments' = Append(segments, segment)
                    /\ \E out \in (IF noise_reduction
                                   THEN NoiseReduced(audio_float)
                                   ELSE {audio_float}) :
                           yielded' = Append(yielded, out)
                    /\ mic_pc' = "yielded"
           ELSE /\ audio_buffer' = buf
                /\ UNCHANGED <<segments, yielded, mic_pc>>
    /\ UNCHANGED <<chunk_samples, noise_reduction>>

\* stream.read raises: caught by "except Exception" inside mic_stream, the
\* finally block closes the stream and the generator ends normally
MicReadError ==
    /\ mic_pc = "reading"
    /\ mic_pc' = "closed"
    /\ segments' = segments \o StreamEndYield(audio_buffer)
    /\ yielded' = yielded \o [k \in 1..Len(StreamEndYield(audio_buffer)) |->
                                Normalize(StreamEndYield(audio_buffer)[k])]
    /\ UNCHANGED <<chunk_samples, noise_reduction, audio_buffer, read>>

\* the consumer asks for the next segment: execution resumes after the yield
MicResume ==
    /\ mic_pc = "yielded"
    /\ mic_pc' = "reading"
    /\ UNCHANGED <<chunk_samples, noise_reduction, audio_buffer,
                   read, segments, yielded>>

\* (C1, as stated) the segments yielded so far followed by audio_buffer are the
\* samples read so far
C1_YieldedEqualsRead ==
    LET y == Flatten(yielded)
        r == Flatten(read)
    IN  /\ Len(y) + Len(audio_buffer) = Len(r)
        /\ \A i \in 1..Len(y) : y[i] = Float(r[i])
        /\ \A i \in 1..Len(audio_buffer) : audio_buffer[i] = r[Len(y) + i]

\* (C1, amended) the slices cut from the front of the buffer so far, followed
\* by the retained audio_buffer, are exactly the samples read so far, in order;
\* each yielded segment is its slice normalised, unless noise reduction
\* filtered it, in which case it still has the slice's length.
C1_FifoSlicing ==
    /\ Flatten(segments) \o audio_buffer = Flatten(read)
    /\ Len(yielded) = Len(segments)
    /\ \A k \in 1..Len(segments) :
          /\ Len(yielded[k]) = Len(segments[k])
          /\ (~noise_reduction \/ Len(segments[k]) <= noise_sample_count)
                => \A i \in 1..Len(segments[k]) :
                       /\ yielded[k][i].num = segments[k][i]
                       /\ yielded[k][i].den = 32768

C1_Witness ==
    /\ Len(read) >= 2
    /\ Len(segments) >= 1
    /\ audio_buffer # <<>>
    /\ noise_reduction
    /\ \E k \in 1..Len(segments) : yielded[k] # Normalize(segments[k])

\* ------------------------------------------------------------ translate_text
ErrorText == <<"[Translation error]">>

RECURSIVE LStrip(_)
LStrip(t) == IF t # <<>> /\ Head(t) = " " THEN LStrip(Tail(t)) ELSE t

RECURSIVE RStrip(_)
RStrip(t) == IF t # <<>> /\ t[Len(t)] = " "
             THEN RStrip(SubSeq(t, 1, Len(t) - 1)) ELSE t

\* str.strip()
Strip(t) == RStrip(LStrip(t))

SystemEntry == [role |-> "system", content |-> <<"instructions">>]

TrInit ==
    /\ translation_context = <<SystemEntry>>
    /\ tr_pc = "idle"
    /\ tr_text = <<>>
    /\ tr_result = <<>>
    /\ calls = <<>>

\* "if not russian_text.strip(): return ''"
NoStripCheck(t) == t = <<>>
ReturnsEarly(t) == Strip(t) = <<>>

\* translate_text up to the request to the translator
TranslateCall(t) ==
    /\ tr_pc = "idle"
    /\ tr_text' = t
    /\ IF ReturnsEarly(t)
       THEN /\ tr_result' = <<>>
            /\ calls' = Append(calls, [text |-> t, outcome |-> "empty",
                                       before |-> Len(translation_context),
                                       after |-> Len(translation_context),
                                       result |-> <<>>])
            /\ UNCHANGED <<translation_context, tr_pc>>
       ELSE /\ translation_context' =
                  Append(translation_context, [role |-> "user", content |-> t])
            /\ tr_pc' = "api"
            /\ UNCHANGED <<tr_result, calls>>

\* the translator answered with a JSON object {'translation': e}
TranslateOk(e) ==
    /\ tr_pc = "api"
    /\ translation_context' =
          Append(translation_context, [role |-> "assistant", content |-> e])
    /\ tr_result' = e
    /\ tr_pc' = "idle"
    /\ calls' = Append(calls, [text |-> tr_text, outcome |-> "ok",
                               before |-> Len(translation_context) - 1,
                               after |-> Len(translation_context) + 1,
                               result |-> e])
    /\ UNCHANGED tr_text

\* the context when the except clause returns: the user entry appended before
\* the request stays where it is
AfterFailureRollback(context) == SubSeq(context, 1, Len(context) - 1)
AfterFailure(context) == context

\* the request or the parsing of its answer raised: "except Exception"
TranslateFail ==
    /\ tr_pc = "api"
    /\ tr_result' = ErrorText
    /\ tr_pc' = "idle"
    /\ calls' = Append(calls, [text |-> tr_text, outcome |-> "error",
                               before |-> Len(translation_context) - 1,
                               after |-> Len(translation_context),
                               result |-> ErrorText])
    /\ translation_context' = AfterFailure(translation_context)
    /\ UNCHANGED tr_text

trVars == <<translation_context, tr_pc, tr_text, tr_result, calls>>

pipeVars == <<mode, main_pc, main_i, stop_event, init_failed,
              cap_pc, trans_pc, tl_pc, trans_item, tl_item,
              audio_queue, transcription_queue,
              cause, start_log, broke_at, aq_put, aq_got, asr_done,
              tq_put, tq_got, displayed, level_log>>

vars == <<micVars, trVars, pipeVars, restVars>>

WhitespaceOnly(t) == \A i \in 1..Len(t) : t[i] = " "

\* (C4) every finished translate_text call that succeeded left the context
\* exactly two entries longer, a user entry with its text followed by an
\* assistant entry with the translation; every call with empty or
\* whitespace-only text left the length of the context unchanged.
C4_ContextGrowth ==
    \A k \in 1..Len(calls) :
        LET c == calls[k] IN
        /\ c.outcome = "ok" =>
              /\ c.after = c.before + 2
              /\ c.after <= Len(translation_context)
              /\ translation_context[c.before + 1] =
                    [role |-> "user", content |-> c.text]
              /\ translation_context[c.before + 2] =
                    [role |-> "assistant", content |-> c.result]
        /\ WhitespaceOnly(c.text) =>
              /\ c.after = c.before
              /\ c.outcome = "empty"
        /\ (k > 1 => c.before = calls[k-1].after)
        /\ (k = 1 => c.before = 1)

C4_Witness ==
    \E j, k \in 1..Len(calls) :
        /\ j < k
        /\ calls[j].outcome = "ok"
        /\ calls[k].text = <<" ">>
        /\ Len(translation_context) = 3


\* ------------------------------------------------------------------ mix_audio
\* Floats of the mixer are fractions over 10 * 32768, which holds every
\* product of a normalised int16 sample with 0.3 and every tenth.
MIX_DEN == 10 * FULL_SCALE

Tenths(t) == [num |-> t * FULL_SCALE, den |-> MIX_DEN]

\* raw PCM bytes of up to MaxMixLen int16 samples
OriginalChunks ==
    {Flatten(ps) : ps \in UNION {[1..n -> Int16Bytes] : n \in 0..MaxMixLen}}

\* float32 arrays of up to MaxMixLen samples
TtsChunks ==
    UNION {[1..n -> {Tenths(t) : t \in TtsTenths}] : n \in 0..MaxMixLen}

\* the int16 value of two little-endian bytes
Int16(lo, hi) ==
    LET u == lo + 256 * hi IN IF u >= FULL_SCALE THEN u - 2 * FULL_SCALE ELSE u

\* np.frombuffer(original_chunk, dtype=np.int16)
FromBuffer(bytes) ==
    [k \in 1..(Len(bytes) \div 2) |-> Int16(bytes[2 * k - 1], bytes[2 * k])]

\* "mixed_len = max(len_original, len_tts)"
MixedLenMin(a, b) == IF a < b THEN a ELSE b
MixedLen(a, b) == IF a > b THEN a ELSE b

\* "original_np * original_volume"
Unscaled(f) == [num |-> f.num * 10, den |-> f.den * 10]
Scaled(f) == [num |-> f.num * ORIGINAL_VOLUME_TENTHS, den |-> f.den * 10]

Plus(a, b) == [num |-> a.num + b.num, den |-> a.den]

\* np.clip(x, -1.0, 1.0) of one sample
NoClip(f) == f
Clip(f) ==
    IF f.num > f.den THEN [num |-> f.den, den |-> f.den]
    ELSE IF f.num < -f.den THEN [num |-> -f.den, den |-> f.den]
    ELSE f

mix_audio(original, tts) ==
    LET original_np == Normalize(FromBuffer(original))
        len_original == Len(original_np)
        len_tts == Len(tts)
        mixed_len == MixedLen(len_original, len_tts)
        zero == [num |-> 0, den |-> MIX_DEN]
        with_original ==
            [i \in 1..mixed_len |->
                IF i <= len_original THEN Plus(zero, Scaled(original_np[i]))
                ELSE zero]
        with_tts ==
            [i \in 1..mixed_len |->
                IF i <= len_tts THEN Plus(with_original[i], tts[i])
                ELSE with_original[i]]
    IN  [i \in 1..mixed_len |-> Clip(with_tts[i])]

\* no call of mix_audio is under way
MixIdle ==
    /\ mix_pc = "idle"
    /\ original_chunk = <<>>
    /\ tts_chunk = <<>>
    /\ mixed = <<>>

\* mix_audio is called with some arguments
MixCalled ==
    /\ mix_pc = "called"
    /\ original_chunk \in OriginalChunks
    /\ tts_chunk \in TtsChunks
    /\ mixed = <<>>

\* the call returns
MixReturn ==
    /\ mix_pc = "called"
    /\ mixed' = mix_audio(original_chunk, tts_chunk)
    /\ mix_pc' = "returned"
    /\ UNCHANGED <<original_chunk, tts_chunk>>

\* ------------------------------------------------- queue.Queue (FIFO, unbounded)
\* Queue.put on a queue made by queue.Queue(): maxsize is 0, the queue is
\* never full and put returns at once
PutBounded(q, x) == IF Len(q) >= 1 THEN q ELSE Append(q, x)
Put(q, x) == Append(q, x)

DequeueLifo(q) == [item |-> q[Len(q)], rest |-> SubSeq(q, 1, Len(q) - 1)]
Dequeue(q) == [item |-> Head(q), rest |-> Tail(q)]

\* ----------------------------------------------------------- main and workers
Modes == {"gui", "console", "translate_mic"}
ThreadOrder == <<"audio", "trans", "tl">>
Workers == {"audio", "trans", "tl"}
NoItem == [id |-> 0, text |-> <<>>]

\* Chunks the microphone delivers in a pipeline run: a quiet one and a loud one.
PipeChunks == {[i \in 1..CHUNK_SIZE |-> 983], [i \in 1..CHUNK_SIZE |-> -984]}

PipeInit ==
    /\ mode \in Modes
    /\ main_pc = "import"
    /\ main_i = 1
    /\ stop_event = FALSE
    /\ init_failed = FALSE
    /\ cap_pc = "unstarted"
    /\ trans_pc = "unstarted"
    /\ tl_pc = "unstarted"
    /\ trans_item = 0
    /\ tl_item = NoItem
    /\ audio_queue = <<>>
    /\ transcription_queue = <<>>
    /\ cause = [w \in Workers |-> "none"]
    /\ start_log = <<>>
    /\ broke_at = {}
    /\ aq_put = <<>>
    /\ aq_got = <<>>
    /\ asr_done = <<>>
    /\ tq_put = <<>>
    /\ tq_got = <<>>
    /\ displayed = <<>>
    /\ level_log = <<>>

\* mic_stream as main calls it: noise_reduction=True
PipeMicInit ==
    /\ mic_pc = "created"
    /\ chunk_samples \in {ChunkSamples(h) : h \in PipeHalfSeconds}
    /\ noise_reduction = TRUE
    /\ audio_buffer = <<>>
    /\ read = <<>>
    /\ segments = <<>>
    /\ yielded = <<>>

\* "stop_event.set()" on the threading.Event: the flag is true afterwards,
\* whatever it was
EventToggle(flag) == ~flag
EventSet(flag) == TRUE

mainV == <<mode, main_pc, main_i, init_failed, start_log>>
capV == <<cap_pc, broke_at, aq_put, level_log>>
transV == <<trans_pc, trans_item, aq_got, asr_done, tq_put>>
tlV == <<tl_pc, tl_item, tq_got, displayed>>
histVars == <<start_log, broke_at, aq_put, aq_got, asr_done,
              tq_put, tq_got, displayed, level_log>>

\* Where main goes after importing asr and translation.  asr.py re-raises a
\* failed model load and translation.py raises without OPENAI_API_KEY: in
\* main.py the import is at module level and ends the process, in
\* translate_mic.py it is inside main's try block and main returns False.
AfterImportSwallowed(m, ok) == "start"
AfterImport(m, ok) ==
    IF ok THEN "start"
    ELSE IF m = "translate_mic" THEN "failed" ELSE "crashed"

MainImport ==
    /\ main_pc = "import"
    /\ \E ok \in BOOLEAN :
         /\ init_failed' = ~ok
         /\ main_pc' = AfterImport(mode, ok)
    /\ UNCHANGED <<restVars, mode, main_i, stop_event, cap_pc, trans_pc, tl_pc,
                   trans_item, tl_item, audio_queue, transcription_queue,
                   cause, histVars, micVars, trVars>>

\* GUI mode of main.py: CaptionDisplayUI(...) raises (no display); only
\* ImportError is caught around it, so main's "except Exception" returns False
MainUiError ==
    /\ main_pc = "start"
    /\ main_i = 1
    /\ mode = "gui"
    /\ init_failed' = TRUE
    /\ main_pc' = "failed"
    /\ UNCHANGED <<restVars, mode, main_i, stop_event, cap_pc, trans_pc, tl_pc,
                   trans_item, tl_item, audio_queue, transcription_queue,
                   cause, histVars, micVars, trVars>>

\* 'if __name__ == "__main__": main()': the value main returns is dropped, the
\* interpreter ends with status 0 unless an exception left the module (1);
\* -1 while main has not ended
ExitStatus ==
    CASE main_pc = "crashed" -> 1
      [] main_pc \in {"done", "failed"} -> 0
      [] OTHER -> -1

AfterStart(i) == IF i = Len(ThreadOrder) THEN "wait" ELSE "start"

\* thread.start() of the next thread of the list
MainStart ==
    /\ main_pc = "start"
    /\ LET w == ThreadOrder[main_i] IN
         /\ cap_pc' = IF w = "audio" THEN "next" ELSE cap_pc
         /\ trans_pc' = IF w = "trans" THEN "loop" ELSE trans_pc
         /\ tl_pc' = IF w = "tl" THEN "loop" ELSE tl_pc
         /\ start_log' = Append(start_log, [worker |-> w, stopped |-> stop_event])
    /\ main_pc' = AfterStart(main_i)
    /\ main_i' = IF main_i = Len(ThreadOrder) THEN 1 ELSE main_i + 1
    /\ UNCHANGED <<restVars, mode, stop_event, init_failed, trans_item, tl_item,
                   audio_queue, transcription_queue, cause,
                   broke_at, aq_put, aq_got, asr_done, tq_put, tq_got,
                   displayed, level_log, micVars, trVars>>

\* console mode of main.py: "while not stop_event.is_set(): time.sleep(0.1)"
MainWaitConsole ==
    /\ main_pc = "wait"
    /\ mode = "console"
    /\ stop_event
    /\ main_pc' = "join"
    /\ UNCHANGED <<restVars, mode, main_i, stop_event, init_failed, cap_pc, trans_pc,
                   tl_pc, trans_item, tl_item, audio_queue,
                   transcription_queue, cause, histVars, micVars, trVars>>

\* GUI mode: the user closes the window while ui.start() runs the main loop;
\* _on_close calls on_ui_close, which sets stop_event, and destroys the window
UiClose ==
    /\ main_pc = "wait"
    /\ mode = "gui"
    /\ stop_event' = EventSet(stop_event)
    /\ main_pc' = "ui_returned"
    /\ UNCHANGED <<restVars, mode, main_i, init_failed, cap_pc, trans_pc,
                   tl_pc, trans_item, tl_item, audio_queue,
                   transcription_queue, cause, histVars, micVars, trVars>>

\* GUI mode: ui.start() has returned, "stop_event.set()"
MainAfterUi ==
    /\ main_pc = "ui_returned"
    /\ stop_event' = EventSet(stop_event)
    /\ main_pc' = "join"
    /\ UNCHANGED <<restVars, mode, main_i, init_failed, cap_pc, trans_pc,
                   tl_pc, trans_item, tl_item, audio_queue,
                   transcription_queue, cause, histVars, micVars, trVars>>

\* KeyboardInterrupt while main waits: "stop_event.set()" in the handler
MainInterrupt ==
    /\ main_pc = "wait"
    /\ stop_event' = EventSet(stop_event)
    /\ main_pc' = "join"
    /\ UNCHANGED <<restVars, mode, main_i, init_failed, cap_pc, trans_pc,
                   tl_pc, trans_item, tl_item, audio_queue,
                   transcription_queue, cause, histVars, micVars, trVars>>

AfterJoinRestart(i) == IF i = Len(ThreadOrder) THEN "wait" ELSE "join"
AfterJoin(i) == IF i = Len(ThreadOrder) THEN "done" ELSE "join"

\* the thread of worker w has returned
Finished(w) ==
    CASE w = "audio" -> cap_pc = "done"
      [] w = "trans" -> trans_pc = "done"
      [] OTHER -> tl_pc = "done"

\* thread.join(timeout=2.0): returns when the thread has finished, or after
\* the timeout while it is still running
JoinWaits(finished) == finished
JoinReturns(finished) == TRUE

MainJoin ==
    /\ main_pc = "join"
    /\ JoinReturns(Finished(ThreadOrder[main_i]))
    /\ main_pc' = AfterJoin(main_i)
    /\ main_i' = IF main_i = Len(ThreadOrder) THEN main_i ELSE main_i + 1
    /\ UNCHANGED <<restVars, mode, stop_event, init_failed, cap_pc, trans_pc,
                   tl_pc, trans_item, tl_item, audio_queue,
                   transcription_queue, cause, histVars, micVars, trVars>>

MainStep ==
    \/ MainImport
    \/ MainUiError
    \/ MainStart
    \/ MainWaitConsole
    \/ MainAfterUi
    \/ MainJoin


\* ------------------------------------------------------- audio_capture_thread
Failed(w) == [cause EXCEPT ![w] = "error"]

\* first next(mic): p.open succeeds
CapOpen ==
    /\ cap_pc = "next"
    /\ MicOpen
    /\ UNCHANGED <<restVars, mainV, capV, transV, tlV, stop_event, cause, audio_queue,
                   transcription_queue, trVars>>

\* first next(mic): p.open raises, the exception reaches "except Exception"
\* of audio_capture_thread
CapOpenError ==
    /\ cap_pc = "next"
    /\ MicOpenError
    /\ stop_event' = EventSet(stop_event)
    /\ cap_pc' = "done"
    /\ cause' = Failed("audio")
    /\ UNCHANGED <<restVars, mainV, broke_at, aq_put, level_log, transV, tlV, audio_queue,
                   transcription_queue, trVars>>

\* next(mic) reads one chunk; the for loop body runs if a segment is yielded
CapRead ==
    /\ cap_pc = "next"
    /\ Len(yielded) < MaxSegments \/ stop_event
    /\ \E chunk \in PipeChunks : MicRead(chunk)
    /\ cap_pc' = IF mic_pc' = "yielded" THEN "check" ELSE "next"
    /\ UNCHANGED <<restVars, mainV, broke_at, aq_put, level_log, transV, tlV, stop_event, cause,
                   audio_queue, transcription_queue, trVars>>

\* stream.read raises inside mic_stream: the generator logs it and ends, the
\* for loop ends and audio_capture_thread returns
CapReadError ==
    /\ cap_pc = "next"
    /\ MicReadError
    /\ cap_pc' = "done"
    /\ cause' = [cause EXCEPT !["audio"] = "mic_error"]
    /\ UNCHANGED <<restVars, mainV, broke_at, aq_put, level_log, transV, tlV, stop_event,
                   audio_queue, transcription_queue, trVars>>

\* "if stop_event.is_set(): break"
\* "if stop_event.is_set(): break", the only test of the event in the loop
CapNeverBreaks(stop) == FALSE
CapBreaks(stop) == stop

CapCheck ==
    /\ cap_pc = "check"
    /\ IF CapBreaks(stop_event)
       THEN /\ cap_pc' = "done"
            /\ cause' = [cause EXCEPT !["audio"] = "stop"]
            /\ broke_at' = broke_at \cup {Len(yielded)}
            /\ mic_pc' = "closed"
       ELSE /\ cap_pc' = "gate"
            /\ UNCHANGED <<restVars, cause, broke_at, mic_pc>>
    /\ UNCHANGED <<restVars, mainV, aq_put, level_log, transV, tlV, stop_event, audio_queue,
                   transcription_queue, trVars, chunk_samples, noise_reduction,
                   audio_buffer, read, segments, yielded>>

\* np.max(np.abs(audio_chunk))
PeakSigned(audio_chunk) ==
    CHOOSE x \in {audio_chunk[i].num : i \in 1..Len(audio_chunk)} :
        \A j \in 1..Len(audio_chunk) : audio_chunk[j].num <= x
Peak(audio_chunk) == MaxAbs(audio_chunk)

\* "level = peak * 100 ... if level < 3.0", peak being Peak / FULL_SCALE
IsSilent(audio_chunk) ==
    Peak(audio_chunk) * PERCENT < SILENCE_LEVEL * FULL_SCALE

\* the level of a segment is reported after "if level < 3.0: continue", by
\* ui.update_audio_level when main.py has a UI and by the level line of
\* translate_mic.py; main.py without a UI reports nothing
LevelEmittedBeforeGate(silent, m) == m \in {"gui", "translate_mic"}
LevelEmitted(silent, m) == ~silent /\ m \in {"gui", "translate_mic"}

\* the silence gate, the level report and "audio_queue.put(audio_chunk)",
\* then next(mic)
CapGate ==
    /\ cap_pc = "gate"
    /\ LET id == Len(yielded) IN
         /\ level_log' = IF LevelEmitted(IsSilent(yielded[id]), mode)
                         THEN Append(level_log, id) ELSE level_log
         /\ IF IsSilent(yielded[id])
            THEN UNCHANGED <<audio_queue, aq_put>>
            ELSE /\ audio_queue' = Put(audio_queue, id)
                 /\ aq_put' = Append(aq_put, id)
    /\ MicResume
    /\ cap_pc' = "next"
    /\ UNCHANGED <<restVars, mainV, broke_at, transV, tlV, stop_event, cause,
                   transcription_queue, trVars>>

CapStep ==
    \/ CapOpen
    \/ CapRead
    \/ CapCheck
    \/ CapGate

\* ------------------------------------------------------- transcription_thread
\* "while not stop_event.is_set()": the loop is left as soon as the event is
\* set, whatever is still on the queue q of the worker
LeavesLoopWhenDrained(stop, q) == stop /\ q = <<>>
LeavesLoop(stop, q) == stop

\* "while not stop_event.is_set()"
TransLoop ==
    /\ trans_pc = "loop"
    /\ IF LeavesLoop(stop_event, audio_queue)
       THEN /\ trans_pc' = "done"
            /\ cause' = [cause EXCEPT !["trans"] = "stop"]
       ELSE /\ trans_pc' = "get"
            /\ UNCHANGED cause
    /\ UNCHANGED <<restVars, mainV, capV, trans_item, aq_got, asr_done, tq_put, tlV,
                   stop_event, audio_queue, transcription_queue,
                   micVars, trVars>>

\* "audio_queue.get(timeout=1.0)": an item, or queue.Empty after the timeout
TransGet ==
    /\ trans_pc = "get"
    /\ IF audio_queue # <<>>
       THEN /\ trans_item' = Dequeue(audio_queue).item
            /\ audio_queue' = Dequeue(audio_queue).rest
            /\ aq_got' = Append(aq_got, Dequeue(audio_queue).item)
            /\ trans_pc' = "work"
       ELSE /\ trans_pc' = "loop"
            /\ UNCHANGED <<restVars, trans_item, audio_queue, aq_got>>
    /\ UNCHANGED <<restVars, mainV, capV, asr_done, tq_put, tlV, stop_event, cause,
                   transcription_queue, micVars, trVars>>

\* "if transcription:"
ForwardAlways(text) == TRUE
Forward(text) == text # <<>>

\* transcribe(audio_chunk) returns result["text"].strip(), or "" when the
\* recognizer raised; then the put on transcription_queue and task_done
TransWork ==
    /\ trans_pc = "work"
    /\ \E raw \in Texts :
         LET transcription == Strip(raw)
             item == [id |-> trans_item, text |-> transcription]
         IN  /\ asr_done' = Append(asr_done, item)
             /\ IF Forward(transcription)
                THEN /\ transcription_queue' = Put(transcription_queue, item)
                     /\ tq_put' = Append(tq_put, trans_item)
                ELSE UNCHANGED <<transcription_queue, tq_put>>
    /\ trans_pc' = "loop"
    /\ UNCHANGED <<restVars, mainV, capV, trans_item, aq_got, tlV, stop_event, cause,
                   audio_queue, micVars, trVars>>

\* an unexpected exception in the loop: the outer "except Exception"
TransCrash ==
    /\ trans_pc \in {"get", "work"}
    /\ trans_pc' = "done"
    /\ stop_event' = EventSet(stop_event)
    /\ cause' = Failed("trans")
    /\ UNCHANGED <<restVars, mainV, capV, trans_item, aq_got, asr_done, tq_put, tlV,
                   audio_queue, transcription_queue, micVars, trVars>>

TransStep ==
    \/ TransLoop
    \/ TransGet
    \/ TransWork

\* --------------------------------------------------------- translation_thread
TlLoop ==
    /\ tl_pc = "loop"
    /\ IF LeavesLoop(stop_event, transcription_queue)
       THEN /\ tl_pc' = "done"
            /\ cause' = [cause EXCEPT !["tl"] = "stop"]
       ELSE /\ tl_pc' = "get"
            /\ UNCHANGED cause
    /\ UNCHANGED <<restVars, mainV, capV, transV, tl_item, tq_got, displayed,
                   stop_event, audio_queue, transcription_queue,
                   micVars, trVars>>

\* "transcription_queue.get(timeout=1.0)"
TlGet ==
    /\ tl_pc = "get"
    /\ IF transcription_queue # <<>>
       THEN /\ tl_item' = Dequeue(transcription_queue).item
            /\ transcription_queue' = Dequeue(transcription_queue).rest
            /\ tq_got' = Append(tq_got, Dequeue(transcription_queue).item.id)
            /\ tl_pc' = "call"
       ELSE /\ tl_pc' = "loop"
            /\ UNCHANGED <<restVars, tl_item, transcription_queue, tq_got>>
    /\ UNCHANGED <<restVars, mainV, capV, transV, displayed, stop_event, cause,
                   audio_queue, micVars, trVars>>

\* "if translated_text:" display_translation / the log line of the translation
Shown(d, item, translated_text) ==
    IF translated_text # <<>>
    THEN Append(d, [id |-> item.id, russian |-> item.text,
                    english |-> translated_text])
    ELSE d

\* "translated_text = translate_text(transcription)" is a plain call: the
\* thread stays inside translate_text while the request is under way (pc)
CallDetached(pc) == "loop"
CallBlocks(pc) == IF pc = "api" THEN "api" ELSE "loop"

\* translate_text(transcription) is entered
TlCall ==
    /\ tl_pc = "call"
    /\ TranslateCall(tl_item.text)
    /\ tl_pc' = CallBlocks(tr_pc')
    /\ displayed' = IF tr_pc' = "api" THEN displayed
                    ELSE Shown(displayed, tl_item, tr_result')
    /\ UNCHANGED <<restVars, mainV, capV, transV, tl_item, tq_got, stop_event, cause,
                   audio_queue, transcription_queue, micVars>>

\* translate_text returns the translation, which is displayed; task_done
TlApiOk ==
    /\ tl_pc = "api"
    /\ \E e \in Translations : TranslateOk(e)
    /\ displayed' = Shown(displayed, tl_item, tr_result')
    /\ tl_pc' = "loop"
    /\ UNCHANGED <<restVars, mainV, capV, transV, tl_item, tq_got, stop_event, cause,
                   audio_queue, transcription_queue, micVars>>

\* translate_text caught an exception and returns the error text
TlApiFail ==
    /\ tl_pc = "api"
    /\ TranslateFail
    /\ displayed' = Shown(displayed, tl_item, tr_result')
    /\ tl_pc' = "loop"
    /\ UNCHANGED <<restVars, mainV, capV, transV, tl_item, tq_got, stop_event, cause,
                   audio_queue, transcription_queue, micVars>>

\* an unexpected exception in the loop: the outer "except Exception"
TlCrash ==
    /\ tl_pc \in {"get", "call"}
    /\ tl_pc' = "done"
    /\ stop_event' = EventSet(stop_event)
    /\ cause' = Failed("tl")
    /\ UNCHANGED <<restVars, mainV, capV, transV, tl_item, tq_got, displayed,
                   audio_queue, transcription_queue, micVars, trVars>>

TlStep ==
    \/ TlLoop
    \/ TlGet
    \/ TlCall
    \/ TlApiOk
    \/ TlApiFail

\* ------------------------------------------------------ tts_loop, mixer_loop
\* Items of the queues of tts.py and mixer.py: a value, or the None that ends
\* the consuming loop.
None == [none |-> TRUE, val |-> <<>>]
Some(v) == [none |-> FALSE, val |-> v]

\* main.py and translate_mic.py import neither tts nor mixer: the queues stay
\* empty and tts_loop and mixer_loop are never run
OutIdle ==
    /\ TTS_QUEUE = <<>>
    /\ TTS_AUDIO_QUEUE = <<>>
    /\ ORIGINAL_AUDIO_QUEUE = <<>>
    /\ tts_pc = "unstarted"
    /\ english_text = <<>>
    /\ mixer_pc = "unstarted"
    /\ tts_audio = <<>>
    /\ original_chunks = <<>>
    /\ played = <<>>
    /\ texts_put = 0
    /\ originals_put = 0
    /\ original_ended = FALSE

\* tts_loop and mixer_loop run as the targets of two threads
OutStarted ==
    /\ TTS_QUEUE = <<>>
    /\ TTS_AUDIO_QUEUE = <<>>
    /\ ORIGINAL_AUDIO_QUEUE = <<>>
    /\ tts_pc = "get"
    /\ english_text = <<>>
    /\ mixer_pc = "get"
    /\ tts_audio = <<>>
    /\ original_chunks = <<>>
    /\ played = <<>>
    /\ texts_put = 0
    /\ originals_put = 0
    /\ original_ended = FALSE

\* "english_text = TTS_QUEUE.get()" blocks while the queue is empty;
\* "if english_text is None: break"
TtsGet ==
    /\ tts_pc = "get"
    /\ TTS_QUEUE # <<>>
    /\ TTS_QUEUE' = Dequeue(TTS_QUEUE).rest
    /\ IF Dequeue(TTS_QUEUE).item.none
       THEN /\ tts_pc' = "done"
            /\ UNCHANGED english_text
       ELSE /\ tts_pc' = "synth"
            /\ english_text' = Dequeue(TTS_QUEUE).item.val
    /\ UNCHANGED <<original_ended, texts_put, originals_put, TTS_AUDIO_QUEUE, ORIGINAL_AUDIO_QUEUE, mixer_pc, tts_audio,
                   original_chunks, played>>

\* synthesize_speech returns a waveform, "TTS_AUDIO_QUEUE.put(audio_wav)"
TtsSynth ==
    /\ tts_pc = "synth"
    /\ \E audio_wav \in TtsChunks :
         TTS_AUDIO_QUEUE' = Put(TTS_AUDIO_QUEUE, Some(audio_wav))
    /\ tts_pc' = "get"
    /\ UNCHANGED <<original_ended, texts_put, originals_put, TTS_QUEUE, ORIGINAL_AUDIO_QUEUE, english_text, mixer_pc,
                   tts_audio, original_chunks, played>>

\* tts_model.tts raises: tts_loop has no handler, its thread ends
TtsRaise ==
    /\ tts_pc = "synth"
    /\ tts_pc' = "raised"
    /\ UNCHANGED <<original_ended, texts_put, originals_put, TTS_QUEUE, TTS_AUDIO_QUEUE, ORIGINAL_AUDIO_QUEUE,
                   english_text, mixer_pc, tts_audio, original_chunks, played>>

\* "tts_audio = TTS_AUDIO_QUEUE.get()" blocks while the queue is empty;
\* "if tts_audio is None: break"
MixerGet ==
    /\ mixer_pc = "get"
    /\ TTS_AUDIO_QUEUE # <<>>
    /\ TTS_AUDIO_QUEUE' = Dequeue(TTS_AUDIO_QUEUE).rest
    /\ IF Dequeue(TTS_AUDIO_QUEUE).item.none
       THEN /\ mixer_pc' = "done"
            /\ UNCHANGED <<tts_audio, original_chunks>>
       ELSE /\ mixer_pc' = "collect"
            /\ tts_audio' = Dequeue(TTS_AUDIO_QUEUE).item.val
            /\ original_chunks' = <<>>
    /\ UNCHANGED <<original_ended, texts_put, originals_put, TTS_QUEUE, ORIGINAL_AUDIO_QUEUE, tts_pc, english_text,
                   played>>

\* "collected += len(original_chunk) // 2" over the chunks gathered so far
RECURSIVE Collected(_)
Collected(chunks) ==
    IF chunks = <<>> THEN 0
    ELSE Len(Head(chunks)) \div 2 + Collected(Tail(chunks))

\* "while collected < tts_length"
NeedsMoreOrEqual(collected, tts_length) == collected <= tts_length
NeedsMore(collected, tts_length) == collected < tts_length

\* one iteration of "while collected < tts_length": the get blocks while
\* ORIGINAL_AUDIO_QUEUE is empty, None leaves the loop
MixerCollect ==
    /\ mixer_pc = "collect"
    /\ NeedsMore(Collected(original_chunks), Len(tts_audio))
    /\ ORIGINAL_AUDIO_QUEUE # <<>>
    /\ ORIGINAL_AUDIO_QUEUE' = Dequeue(ORIGINAL_AUDIO_QUEUE).rest
    /\ IF Dequeue(ORIGINAL_AUDIO_QUEUE).item.none
       THEN /\ mixer_pc' = "play"
            /\ original_ended' = TRUE
            /\ UNCHANGED original_chunks
       ELSE /\ original_chunks' =
                  Append(original_chunks, Dequeue(ORIGINAL_AUDIO_QUEUE).item.val)
            /\ UNCHANGED <<mixer_pc, original_ended>>
    /\ UNCHANGED <<texts_put, originals_put, TTS_QUEUE, TTS_AUDIO_QUEUE, tts_pc, english_text, tts_audio,
                   played>>

\* "sd.play(mixed, samplerate=22050)": the array it is given is played whole
PlaybackWindow(audio) == IF audio = <<>> THEN <<>> ELSE <<Head(audio)>>
Playback(audio) == audio

\* the loop is left; sd.play of mix_audio(b"".join(original_chunks), tts_audio),
\* or of tts_audio when no original chunk was gathered; sd.wait()
MixerPlay ==
    /\ \/ mixer_pc = "play"
       \/ /\ mixer_pc = "collect"
          /\ ~NeedsMore(Collected(original_chunks), Len(tts_audio))
    /\ played' = Append(played,
                        Playback(IF original_chunks # <<>>
                                 THEN mix_audio(Flatten(original_chunks),
                                                tts_audio)
                                 ELSE tts_audio))
    /\ mixer_pc' = "get"
    /\ UNCHANGED <<original_ended, texts_put, originals_put, TTS_QUEUE, TTS_AUDIO_QUEUE, ORIGINAL_AUDIO_QUEUE, tts_pc,
                   english_text, tts_audio, original_chunks>>

\* a producer of translated text: a text, or the None that ends tts_loop
PutText ==
    /\ texts_put < MaxOut
    /\ texts_put' = texts_put + 1
    /\ \E item \in {None} \cup {Some(e) : e \in Translations \ {<<>>}} :
         TTS_QUEUE' = Put(TTS_QUEUE, item)
    /\ UNCHANGED <<TTS_AUDIO_QUEUE, ORIGINAL_AUDIO_QUEUE, tts_pc, english_text,
                   mixer_pc, tts_audio, original_chunks, played,
                   originals_put, original_ended>>

\* a producer of original audio: raw PCM bytes of one chunk, or None
PutOriginal ==
    /\ originals_put < MaxOut
    /\ originals_put' = originals_put + 1
    /\ \E item \in {None} \cup {Some(c) : c \in OriginalChunks \ {<<>>}} :
         ORIGINAL_AUDIO_QUEUE' = Put(ORIGINAL_AUDIO_QUEUE, item)
    /\ UNCHANGED <<TTS_QUEUE, TTS_AUDIO_QUEUE, tts_pc, english_text,
                   mixer_pc, tts_audio, original_chunks, played, texts_put,
                   original_ended>>

\* a stop is signalled while tts_loop and mixer_loop run: the event is set,
\* no sentinel is put on any queue
OutStop ==
    /\ ~stop_event
    /\ stop_event' = EventSet(stop_event)
    /\ UNCHANGED <<mode, main_pc, main_i, init_failed, cap_pc, trans_pc, tl_pc,
                   trans_item, tl_item, audio_queue, transcription_queue,
                   cause, start_log, broke_at, aq_put, aq_got, asr_done,
                   tq_put, tq_got, displayed, level_log>>
    /\ UNCHANGED outVars

\* ------------------------------------------------------------ CaptionDisplayUI
NoteTypes == {"translation", "audio", "status", "error"}

\* __init__: "self.message_queue = queue.Queue()", is_running is False
UiCreated ==
    /\ message_queue = <<>>
    /\ ui_state = "created"
    /\ ui_shown = <<>>
    /\ notes_put = 0

\* display_translation, update_audio_level, update_status and show_error are
\* one "self.message_queue.put({...})" each, on an unbounded queue: the call
\* returns whatever the state of the UI
NotifyWaitsForUi(state) == state = "running"
NotifyReturns(state) == TRUE

\* a thread calls one of the four methods; the message records the state of
\* the UI at the time of the call and its rank among the messages sent
UiNotify(type) ==
    /\ notes_put < MaxNotes
    /\ NotifyReturns(ui_state)
    /\ message_queue' = Put(message_queue, [type |-> type, ui |-> ui_state,
                                            seq |-> notes_put + 1])
    /\ notes_put' = notes_put + 1
    /\ UNCHANGED <<ui_state, ui_shown>>

\* start(): is_running = True, the first _schedule_update, root.mainloop()
UiStart ==
    /\ ui_state = "created"
    /\ ui_state' = "running"
    /\ UNCHANGED <<message_queue, ui_shown, notes_put>>

\* the messages one run of _process_message_queue takes from the queue q when
\* applying those at the positions of failed raises: the inner "except
\* Exception" logs the error and the while loop goes on to the next get
TickStopsAtFailure(q, failed) ==
    IF failed = {} THEN q
    ELSE SubSeq(q, 1, CHOOSE k \in failed : \A j \in failed : k <= j)
TickTakes(q, failed) == q

\* what became of each message taken: ok tells whether its widget update
\* went through
Applied(taken, failed) ==
    [k \in 1..Len(taken) |->
        [type |-> taken[k].type, ui |-> taken[k].ui, seq |-> taken[k].seq,
         ok |-> k \notin failed]]

\* _process_message_queue, run by the main loop every update_interval: it
\* takes messages with get(block=False) until queue.Empty
UiProcess ==
    /\ ui_state = "running"
    /\ message_queue # <<>>
    /\ \E failed \in SUBSET (1..Len(message_queue)) :
         LET taken == TickTakes(message_queue, failed) IN
         /\ ui_shown' = ui_shown \o Applied(taken, failed)
         /\ message_queue' =
               SubSeq(message_queue, Len(taken) + 1, Len(message_queue))
    /\ UNCHANGED <<ui_state, notes_put>>

\* _on_close: is_running = False, the window is destroyed
UiOnClose ==
    /\ ui_state = "running"
    /\ ui_state' = "closed"
    /\ UNCHANGED <<message_queue, ui_shown, notes_put>>

\* ------------------------------------------------------------------ transcribe
\* what the recognizer does with a segment: sf.write raises, asr_pipeline
\* raises, or asr_pipeline returns a text
Recognizers ==
    {[fails |-> f, text |-> <<>>] : f \in {"write", "pipeline"}}
        \cup {[fails |-> "none", text |-> t] : t \in Texts}

\* audio_np: None, or an array of up to MaxAudio floats
Audios ==
    {None} \cup {Some(a) : a \in UNION {[1..n -> {Float(s) : s \in Samples}] :
                                          n \in 0..MaxAudio}}

\* confidence_threshold, in tenths
Thresholds == {0, 10}

\* "if audio_np is None or len(audio_np) == 0"
InvalidNoneOnly(audio) == audio.none
Invalid(audio) == audio.none \/ Len(audio.val) = 0

\* the value transcribe returns; invoked tells whether asr_pipeline was called
\* and temp what became of the file of NamedTemporaryFile(delete=False):
\* "none" when it was not created, "deleted" when os.unlink was reached,
\* "left" when an exception skipped os.unlink
transcribe(audio, rec, threshold) ==
    IF Invalid(audio)
    THEN [text |-> <<>>, confidence |-> 0, invoked |-> FALSE, temp |-> "none"]
    ELSE IF rec.fails = "write"
    THEN [text |-> <<>>, confidence |-> 0, invoked |-> FALSE, temp |-> "left"]
    ELSE IF rec.fails = "pipeline"
    THEN [text |-> <<>>, confidence |-> 0, invoked |-> TRUE, temp |-> "left"]
    ELSE [text |-> IF CONFIDENCE_TENTHS < threshold THEN <<>>
                   ELSE Strip(rec.text),
          confidence |-> CONFIDENCE_TENTHS,
          invoked |-> TRUE,
          temp |-> "deleted"]

\* no call of transcribe is under way
AsrIdle ==
    /\ asr_pc = "idle"
    /\ audio_np = None
    /\ recognizer = [fails |-> "none", text |-> <<>>]
    /\ confidence_threshold = 0
    /\ asr_result = [text |-> <<>>, confidence |-> 0, invoked |-> FALSE,
                     temp |-> "none"]

\* transcribe is called with some audio, on some behaviour of the recognizer
AsrCalled ==
    /\ asr_pc = "called"
    /\ audio_np \in Audios
    /\ recognizer \in Recognizers
    /\ confidence_threshold \in Thresholds
    /\ asr_result = [text |-> <<>>, confidence |-> 0, invoked |-> FALSE,
                     temp |-> "none"]

\* the call returns
AsrReturn ==
    /\ asr_pc = "called"
    /\ asr_result' = transcribe(audio_np, recognizer, confidence_threshold)
    /\ asr_pc' = "returned"
    /\ UNCHANGED <<audio_np, recognizer, confidence_threshold>>

SideIdle == UiCreated /\ AsrIdle

\* ------------------------------------------------------------- specifications
PipeNext ==
    \/ MainStep
    \/ UiClose
    \/ MainInterrupt
    \/ CapStep
    \/ CapOpenError
    \/ CapReadError
    \/ TransStep
    \/ TransCrash
    \/ TlStep
    \/ TlCrash

InitPipe ==
    PipeInit /\ PipeMicInit /\ TrInit /\ OutIdle /\ MixIdle /\ SideIdle

\* the whole program: main, the three worker threads, the microphone
Spec == InitPipe /\ [][PipeNext]_vars

\* the program with main scheduled again and again; a worker thread may stay
\* where it is for ever (a call that never returns)
MainFairSpec == Spec /\ WF_vars(MainStep)

\* the program with every thread scheduled again and again; the user (window
\* close, Ctrl+C) and failures are not obliged to happen
FairSpec ==
    /\ Spec
    /\ WF_vars(MainStep)
    /\ WF_vars(CapStep)
    /\ WF_vars(TransStep)
    /\ WF_vars(TlStep)

\* the threads and main are not started
InitMic ==
    MicInit /\ TrInit /\ PipeInit /\ mode = "console" /\ OutIdle /\ MixIdle
    /\ SideIdle

NextMic ==
    \/ MicOpen /\ UNCHANGED <<trVars, pipeVars, restVars>>
    \/ MicOpenError /\ UNCHANGED <<trVars, pipeVars, restVars>>
    \/ /\ Len(read) < MaxReads
       /\ \E chunk \in AllChunks : MicRead(chunk)
       /\ UNCHANGED <<trVars, pipeVars, restVars>>
    \/ MicReadError /\ UNCHANGED <<trVars, pipeVars, restVars>>
    \/ MicResume /\ UNCHANGED <<trVars, pipeVars, restVars>>

\* mic_stream alone, driven by an arbitrary consumer
SpecMic == InitMic /\ [][NextMic]_vars

\* the threads and main are not started
InitTr ==
    TrInit /\ PipeMicInit /\ PipeInit /\ mode = "console" /\ OutIdle /\ MixIdle
    /\ SideIdle

NextTr ==
    \/ /\ Len(calls) < MaxCalls
       /\ \E t \in Texts : TranslateCall(t)
       /\ UNCHANGED <<micVars, pipeVars, restVars>>
    \/ /\ \E e \in Translations : TranslateOk(e)
       /\ UNCHANGED <<micVars, pipeVars, restVars>>
    \/ TranslateFail /\ UNCHANGED <<micVars, pipeVars, restVars>>

\* translate_text alone, called with arbitrary texts
SpecTr == InitTr /\ [][NextTr]_vars

\* the threads and main are not started
InitMix ==
    MixCalled /\ PipeMicInit /\ TrInit /\ PipeInit /\ mode = "console"
    /\ OutIdle /\ SideIdle

NextMix ==
    MixReturn /\ UNCHANGED <<micVars, trVars, pipeVars, outVars, sideVars>>

\* mix_audio alone, called once with arbitrary arguments
SpecMix == InitMix /\ [][NextMix]_vars

\* the threads of main are not started
InitOut ==
    OutStarted /\ MixIdle /\ TrInit /\ PipeMicInit /\ PipeInit
    /\ mode = "console" /\ SideIdle

\* a step of tts_loop that returns normally
TtsStep ==
    \/ TtsGet /\ UNCHANGED <<micVars, trVars, pipeVars, mixVars, sideVars>>
    \/ TtsSynth /\ UNCHANGED <<micVars, trVars, pipeVars, mixVars, sideVars>>

\* a step of mixer_loop
MixerStep ==
    \/ MixerGet /\ UNCHANGED <<micVars, trVars, pipeVars, mixVars, sideVars>>
    \/ MixerCollect /\ UNCHANGED <<micVars, trVars, pipeVars, mixVars, sideVars>>
    \/ MixerPlay /\ UNCHANGED <<micVars, trVars, pipeVars, mixVars, sideVars>>

NextOut ==
    \/ TtsStep
    \/ TtsRaise /\ UNCHANGED <<micVars, trVars, pipeVars, mixVars, sideVars>>
    \/ MixerStep
    \/ PutText /\ UNCHANGED <<micVars, trVars, pipeVars, mixVars, sideVars>>
    \/ PutOriginal /\ UNCHANGED <<micVars, trVars, pipeVars, mixVars, sideVars>>
    \/ OutStop /\ UNCHANGED <<micVars, trVars, mixVars, sideVars>>

\* tts_loop and mixer_loop with arbitrary producers on their input queues
SpecOut == InitOut /\ [][NextOut]_vars

\* the two loops scheduled again and again; the producers, the stop and a
\* failure of the synthesizer are not obliged to happen
FairSpecOut ==
    /\ SpecOut
    /\ WF_vars(TtsStep)
    /\ WF_vars(MixerStep)

\* the threads and main are not started
InitUi ==
    UiCreated /\ AsrIdle /\ OutIdle /\ MixIdle /\ TrInit /\ PipeMicInit
    /\ PipeInit /\ mode = "gui"

NextUi ==
    \/ /\ \E type \in NoteTypes : UiNotify(type)
       /\ UNCHANGED <<micVars, trVars, pipeVars, outVars, mixVars, asrVars>>
    \/ UiStart
       /\ UNCHANGED <<micVars, trVars, pipeVars, outVars, mixVars, asrVars>>
    \/ UiProcess
       /\ UNCHANGED <<micVars, trVars, pipeVars, outVars, mixVars, asrVars>>
    \/ UiOnClose
       /\ UNCHANGED <<micVars, trVars, pipeVars, outVars, mixVars, asrVars>>

\* the UI alone, notified by arbitrary threads
SpecUi == InitUi /\ [][NextUi]_vars

\* the threads and main are not started
InitAsr ==
    AsrCalled /\ UiCreated /\ OutIdle /\ MixIdle /\ TrInit /\ PipeMicInit
    /\ PipeInit /\ mode = "console"

NextAsr ==
    AsrReturn
        /\ UNCHANGED <<micVars, trVars, pipeVars, outVars, mixVars, uiVars>>

\* transcribe alone, called once with arbitrary arguments
SpecAsr == InitAsr /\ [][NextAsr]_vars

\* ------------------------------------------------------------------- liveness
AllWorkersExited == cap_pc = "done" /\ trans_pc = "done" /\ tl_pc = "done"

\* (C9) a worker that fails and sets stop_event leads to main leaving its wait,
\* joining the workers and returning
C9_MainObservesFailure ==
    (\E w \in Workers : cause[w] = "error") ~> (main_pc = "done")

\* (C6) once stop_event is set, every worker leaves its loop and main reaches
\* its stopped state
C6_StopReachesStopped ==
    stop_event ~> (AllWorkersExited /\ main_pc = "done")


\* --------------------------------------------------------------- silence gate
Range(q) == {q[k] : k \in 1..Len(q)}
Ids(q) == {q[k].id : k \in 1..Len(q)}

\* some sample x of the segment has |x| * 100 >= 3.0
Loud(seg) ==
    \E i \in 1..Len(seg) :
        \/ seg[i].num * 100 >= 3 * seg[i].den
        \/ seg[i].num * 100 <= -3 * seg[i].den

\* the capture loop has finished with segment number id
Handled(id) ==
    \/ id < Len(yielded)
    \/ id = Len(yielded) /\ cap_pc \notin {"check", "gate"}

QuietNeverQueued ==
    \A id \in 1..Len(yielded) :
        ~Loud(yielded[id]) =>
            /\ id \notin Range(aq_put)
            /\ id \notin Range(audio_queue)
            /\ id \notin Ids(asr_done)
            /\ ~(trans_pc = "work" /\ trans_item = id)

\* (C2, as stated) a segment below the silence threshold is never put on
\* audio_queue and never transcribed; a segment at or above it is always put
C2_GateAsStated ==
    /\ QuietNeverQueued
    /\ \A id \in 1..Len(yielded) :
           Loud(yielded[id]) /\ Handled(id) => id \in Range(aq_put)

\* (C2, amended) a segment below the silence threshold is never put on
\* audio_queue and never transcribed; a segment at or above it is always put,
\* unless stop_event was already set when the capture loop received it
C2_Gate ==
    /\ QuietNeverQueued
    /\ Ids(asr_done) \subseteq Range(aq_put)
    /\ \A id \in 1..Len(yielded) :
           Loud(yielded[id]) /\ Handled(id) /\ id \notin broke_at
               => id \in Range(aq_put)

C2_Witness ==
    \E i, j \in 1..Len(yielded) :
        /\ ~Loud(yielded[i]) /\ Handled(i)
        /\ Loud(yielded[j]) /\ j \in Ids(asr_done)

\* ----------------------------------------------------------------- empty text
\* (C3) a segment for which the recognizer returned empty text puts nothing on
\* transcription_queue and is never translated, and the transcription worker
\* is back at the head of its loop, with stop_event as it was
C3_EmptyTextSkipped ==
    /\ [](/\ \A k \in 1..Len(asr_done) :
                asr_done[k].text = <<>> =>
                    /\ asr_done[k].id \notin Range(tq_put)
                    /\ asr_done[k].id \notin Ids(displayed)
                    /\ tl_item.id # asr_done[k].id
          /\ \A k \in 1..Len(transcription_queue) :
                transcription_queue[k].text # <<>>
          /\ \A k \in 1..Len(calls) : calls[k].text # <<>>)
    /\ [][(Len(asr_done') > Len(asr_done)
            /\ asr_done'[Len(asr_done')].text = <<>>)
          => /\ trans_pc' = "loop"
             /\ transcription_queue' = transcription_queue
             /\ stop_event' = stop_event]_vars

C3_Witness ==
    /\ Len(asr_done) >= 2
    /\ asr_done[1].text = <<>>
    /\ asr_done[2].text # <<>>
    /\ Range(tq_put) = {asr_done[2].id}

\* ------------------------------------------------------------------- ordering
IsPrefix(a, b) == Len(a) <= Len(b) /\ \A k \in 1..Len(a) : a[k] = b[k]
Increasing(q) == \A j, k \in 1..Len(q) : j < k => q[j] < q[k]

\* (C5) items leave audio_queue and transcription_queue in the order they were
\* put, and translations are displayed in the order their segments were captured
C5_Order ==
    /\ IsPrefix(aq_got, aq_put)
    /\ IsPrefix(tq_got, tq_put)
    /\ Increasing(aq_put)
    /\ Increasing([k \in 1..Len(displayed) |-> displayed[k].id])

C5_Witness ==
    /\ Len(displayed) >= 2
    /\ displayed[1].id < displayed[2].id

\* ------------------------------------------------------------------ lifecycle
Lifecycle ==
    CASE main_pc \in {"import", "start"} -> "Idle"
      [] main_pc = "wait" -> "Running"
      [] main_pc \in {"ui_returned", "join"} -> "Draining"
      [] main_pc = "done" -> "Stopped"
      [] OTHER -> "Aborted"

Rank(l) ==
    CASE l = "Idle" -> 0
      [] l = "Running" -> 1
      [] l = "Draining" -> 2
      [] l = "Stopped" -> 3
      [] OTHER -> 4

ForwardOnly ==
    /\ Rank(Lifecycle') >= Rank(Lifecycle)
    /\ Rank(Lifecycle') <= Rank(Lifecycle) + 1 \/ Lifecycle' = "Aborted"
    /\ Lifecycle' = "Aborted" => Lifecycle \in {"Idle", "Aborted"}
    /\ (Lifecycle = "Running" /\ Lifecycle' = "Draining") => stop_event'
    /\ start_log' # start_log =>
          /\ Lifecycle = "Idle"
          /\ \A k \in 1..Len(start_log) :
                start_log[k].worker # start_log'[Len(start_log')].worker

\* (C7, as stated) the lifecycle only moves forward through Idle, Running,
\* Draining, Stopped, each worker is started once, and no worker is started
\* after stop_event has been set
C7_AsStated ==
    [][/\ ForwardOnly
       /\ start_log' # start_log => ~stop_event]_vars

\* (C7, amended) the lifecycle only moves forward, one state at a time, through
\* Idle, Running, Draining, Stopped; it leaves Running for Draining only with
\* stop_event set; each worker is started once, and only while main is Idle
C7_ForwardOnly == [][ForwardOnly]_vars

C7_Witness ==
    /\ main_pc = "done"
    /\ Len(start_log) = 3
    /\ \E k \in 1..3 : start_log[k].stopped

\* ------------------------------------------------------------ worker failures
\* (C8) a worker that left its loop because of an unexpected error has set
\* stop_event
C8_FailureSetsStop ==
    \A w \in Workers : cause[w] \in {"error", "mic_error"} => stop_event

\* --------------------------------------------------------- startup failures
\* (C10) when a collaborator failed to initialise, no worker thread has been
\* started and main is not Running
C10_NoStartAfterInitFailure ==
    init_failed =>
        /\ start_log = <<>>
        /\ cap_pc = "unstarted" /\ trans_pc = "unstarted" /\ tl_pc = "unstarted"
        /\ Lifecycle = "Aborted"

C10_Witness ==
    /\ init_failed
    /\ main_pc \in {"failed", "crashed"}

\* ---------------------------------------------------------------- exit status
\* (C11) when main has ended through its fatal-error path (it caught an
\* exception and returned False), the exit status of the process is not zero
C11_FatalExitNonZero == main_pc = "failed" => ExitStatus > 0

C13_FailedCallShowsNothing ==
    \A j \in 1..Len(calls) :
        calls[j].outcome = "error" =>
            \A k \in 1..Len(displayed) :
                ~(/\ displayed[k].russian = calls[j].text
                  /\ displayed[k].english = calls[j].result)

\* ------------------------------------------------------------------ mix_audio
Min(a, b) == IF a < b THEN a ELSE b
Max(a, b) == IF a > b THEN a ELSE b

\* (C14, as stated) when both arguments of mix_audio are non-empty, the result
\* has min(len(original), len(synthesized)) samples
C14_AsStated ==
    (mix_pc = "returned" /\ original_chunk # <<>> /\ tts_chunk # <<>>) =>
        Len(mixed) = Min(Len(original_chunk) \div 2, Len(tts_chunk))

\* (C14, amended) the result of mix_audio has max(len(original),
\* len(synthesized)) samples, the original counted in int16 samples; past the
\* end of the shorter argument the result is the longer one alone, the
\* original times original_volume, the synthesized one clipped to [-1, 1]
C14_MaxLength ==
    mix_pc = "returned" =>
        LET o == FromBuffer(original_chunk)
        IN  /\ Len(mixed) = Max(Len(o), Len(tts_chunk))
            /\ \A i \in 1..Len(mixed) :
                  /\ i > Len(tts_chunk) =>
                        /\ mixed[i].num = ORIGINAL_VOLUME_TENTHS * o[i]
                        /\ mixed[i].den = MIX_DEN
                  /\ i > Len(o) =>
                        /\ mixed[i].num =
                              Max(-MIX_DEN, Min(MIX_DEN, tts_chunk[i].num))
                        /\ mixed[i].den = MIX_DEN

C14_Witness ==
    /\ mix_pc = "returned"
    /\ original_chunk # <<>>
    /\ tts_chunk # <<>>
    /\ Len(original_chunk) \div 2 # Len(tts_chunk)
    /\ Len(mixed) > Min(Len(original_chunk) \div 2, Len(tts_chunk))

\* (C15, as stated) mix_audio returns the non-empty argument unchanged when
\* the other one is empty, and an empty result when both are empty
C15_AsStated ==
    mix_pc = "returned" =>
        LET o == FromBuffer(original_chunk)
        IN  /\ (tts_chunk = <<>> /\ o # <<>>) =>
                  /\ Len(mixed) = Len(o)
                  /\ \A i \in 1..Len(o) :
                        mixed[i].num = (mixed[i].den \div FULL_SCALE) * o[i]
            /\ (o = <<>> /\ tts_chunk # <<>>) => mixed = tts_chunk
            /\ (o = <<>> /\ tts_chunk = <<>>) => mixed = <<>>

\* (C15, amended) when the synthesized argument is empty, mix_audio returns
\* the original samples times original_volume (0.3); when the original is
\* empty, it returns the synthesized samples clipped to [-1, 1]; when both
\* are empty, it returns an empty result
C15_ScaledOrClipped ==
    mix_pc = "returned" =>
        LET o == FromBuffer(original_chunk)
        IN  /\ (tts_chunk = <<>> /\ o # <<>>) =>
                  /\ Len(mixed) = Len(o)
                  /\ \A i \in 1..Len(o) :
                        /\ mixed[i].num = ORIGINAL_VOLUME_TENTHS * o[i]
                        /\ mixed[i].den = MIX_DEN
            /\ (o = <<>> /\ tts_chunk # <<>>) =>
                  /\ Len(mixed) = Len(tts_chunk)
                  /\ \A i \in 1..Len(tts_chunk) :
                        mixed[i] =
                          IF tts_chunk[i].num > MIX_DEN THEN Tenths(10)
                          ELSE IF tts_chunk[i].num < -MIX_DEN THEN Tenths(-10)
                          ELSE tts_chunk[i]
            /\ (o = <<>> /\ tts_chunk = <<>>) => mixed = <<>>

C15_Witness ==
    /\ mix_pc = "returned"
    /\ tts_chunk = <<>>
    /\ Len(original_chunk) = 2 * MaxMixLen
    /\ \A i \in 1..Len(mixed) :
          /\ mixed[i].num = ORIGINAL_VOLUME_TENTHS * FromBuffer(original_chunk)[i]
          /\ mixed[i].num # 10 * FromBuffer(original_chunk)[i]

\* (C16) every sample of a result of mix_audio lies within [-1.0, 1.0],
\* whichever arguments are empty
C16_ResultInRange ==
    mix_pc = "returned" =>
        \A i \in 1..Len(mixed) :
            /\ mixed[i].den > 0
            /\ -mixed[i].den <= mixed[i].num
            /\ mixed[i].num <= mixed[i].den

C16_Witness ==
    /\ mix_pc = "returned"
    /\ \E i \in 1..Min(Len(original_chunk) \div 2, Len(tts_chunk)) :
          /\ ORIGINAL_VOLUME_TENTHS * FromBuffer(original_chunk)[i]
                + tts_chunk[i].num > MIX_DEN
          /\ mixed[i].num = MIX_DEN
    /\ \E i \in 1..Len(mixed) : mixed[i].num = -MIX_DEN

\* --------------------------------------------------------------- spoken output
\* (C17) while no stop is signalled, a segment whose translation is not empty
\* leads to an output of the mixer being emitted
C17_TranslationIsSpoken ==
    (~stop_event /\ \E k \in 1..Len(displayed) : displayed[k].english # <<>>)
        ~> (stop_event \/ played # <<>>)

\* ------------------------------------------------------------------- draining
Draining == main_pc \in {"ui_returned", "join"}

\* (C18) once main has left its wait with stop_event set, it reaches its
\* stopped state whatever the workers do: every join returns, also for a
\* worker that never finishes, and main returns after the last one
C18_DrainReachesStopped == Draining ~> (main_pc = "done")

C18_Witness ==
    /\ main_pc = "done"
    /\ stop_event
    /\ trans_pc = "work"
    /\ ~Finished("audio")

\* ----------------------------------------------------------------- stream end
Unforwarded == Len(Flatten(read)) - Len(Flatten(segments))

\* (C19, as stated) when mic_stream has finished after the raw stream ended,
\* no partial tail (fewer samples than a chunk, more than none) is left
\* unforwarded
C19_AsStated ==
    mic_pc = "closed" => Unforwarded \notin 1..(chunk_samples - 1)

\* (C19, amended) when the raw stream ends, mic_stream finishes without
\* yielding anything more: every segment yielded has exactly chunk_samples
\* samples and the samples left in the accumulator, a partial tail included,
\* are dropped
C19_TailDropped ==
    mic_pc = "closed" =>
        /\ \A k \in 1..Len(segments) : Len(segments[k]) = chunk_samples
        /\ Len(yielded) = Len(segments)
        /\ Unforwarded = Len(audio_buffer)
        /\ Flatten(segments) \o audio_buffer = Flatten(read)

C19_Witness ==
    /\ mic_pc = "closed"
    /\ Len(segments) >= 1
    /\ Len(audio_buffer) \in 1..(chunk_samples - 1)
    /\ Unforwarded = Len(audio_buffer)

\* ------------------------------------------------------------- level feedback
\* (C20, as stated) every segment the capture loop has dealt with, put on
\* audio_queue or discarded as silent, has had its audio level reported
C20_AsStated ==
    \A id \in 1..Len(yielded) :
        (Handled(id) /\ id \notin broke_at /\ mode # "console")
            => id \in Range(level_log)

\* (C20, amended) the audio level is reported once for every segment that
\* passes the silence gate, just before it is put on audio_queue, and never
\* for a segment the gate discards; main.py without a UI reports no level
C20_LevelOnlyWhenForwarded ==
    /\ mode # "console" => level_log = aq_put
    /\ mode = "console" => level_log = <<>>
    /\ \A id \in 1..Len(yielded) :
          ~Loud(yielded[id]) => id \notin Range(level_log)

C20_Witness ==
    /\ mode = "gui"
    /\ ~stop_event
    /\ \E i \in 1..Len(yielded) :
          /\ ~Loud(yielded[i])
          /\ Handled(i)
          /\ i \notin Range(level_log)

\* ---------------------------------------------------------------- notifications
\* (C21) a call of display_translation, update_audio_level, update_status or
\* show_error returns without waiting for the UI, whether the UI has not been
\* started, is running or is closed: the call can always be made, it only adds
\* its message to message_queue, and every message sent is either still in the
\* queue or has been processed
C21_FireAndForget ==
    /\ [](/\ notes_put < MaxNotes =>
                \A type \in NoteTypes : ENABLED UiNotify(type)
          /\ Len(message_queue) + Len(ui_shown) = notes_put)
    /\ [][notes_put' # notes_put =>
            /\ ui_state' = ui_state
            /\ ui_shown' = ui_shown
            /\ Len(message_queue') = Len(message_queue) + 1
            /\ message_queue'[Len(message_queue')].ui = ui_state]_vars

C21_Witness ==
    /\ ui_state = "closed"
    /\ \E k \in 1..Len(message_queue) : message_queue[k].ui = "closed"
    /\ \E k \in 1..Len(ui_shown) : ui_shown[k].ui = "created"
    /\ \E k \in 1..Len(ui_shown) : ui_shown[k].ui = "running"

\* ------------------------------------------------------------------ transcribe
\* (C25) transcribe always returns: for None or empty audio it returns empty
\* text and confidence 0.0 without calling the recognizer, and when the
\* recognizer raises it returns empty text and confidence 0.0
C25_TranscribeNeverFails ==
    asr_pc = "returned" =>
        /\ (audio_np.none \/ audio_np.val = <<>>) =>
              /\ asr_result.text = <<>>
              /\ asr_result.confidence = 0
              /\ ~asr_result.invoked
        /\ recognizer.fails # "none" =>
              /\ asr_result.text = <<>>
              /\ asr_result.confidence = 0

C25_Witness ==
    /\ asr_pc = "returned"
    /\ ~audio_np.none
    /\ audio_np.val = <<>>
    /\ recognizer.fails = "none"
    /\ recognizer.text # <<>>
    /\ asr_result.text = <<>>

\* ------------------------------------------------------------ one call at a time
\* (C22) at most one translate_text call is under way at any time, that of the
\* one translation thread, so in the context the user entry of a call that
\* succeeded is directly followed by the assistant entry of the same call
C22_OneCallAtATime ==
    /\ tr_pc = "api" => tl_pc = "api"
    /\ Len(calls) + (IF tr_pc = "api" THEN 1 ELSE 0) <= Len(tq_got)
    /\ \A k \in 1..Len(translation_context) :
          translation_context[k].role = "assistant" =>
              /\ k > 1
              /\ translation_context[k - 1].role = "user"
              /\ \E j \in 1..Len(calls) :
                    /\ calls[j].outcome = "ok"
                    /\ calls[j].before = k - 2
                    /\ translation_context[k - 1].content = calls[j].text
                    /\ translation_context[k].content = calls[j].result

C22_Witness ==
    /\ Len(calls) >= 2
    /\ calls[1].outcome = "ok"
    /\ calls[2].outcome = "ok"
    /\ Len(translation_context) = 5

\* ---------------------------------------------------------------- queued work
\* the worker has left its loop because stop_event was set
StoppedBy(w) == cause[w] = "stop"

\* (C27, as stated) an item that is on audio_queue or transcription_queue
\* before stop_event is set, and so is still there or already taken when it is
\* set, is eventually taken by the worker of that queue
C27_AsStated ==
    \A id \in 1..MaxSegments :
        /\ (~stop_event /\ id \in {audio_queue[k] : k \in 1..Len(audio_queue)})
              ~> (id \in {aq_got[k] : k \in 1..Len(aq_got)})
        /\ (~stop_event /\ id \in {transcription_queue[k].id :
                                       k \in 1..Len(transcription_queue)})
              ~> (id \in {tq_got[k] : k \in 1..Len(tq_got)})

\* (C27, amended) queued work is not finished during a drain: a worker that
\* tests stop_event after it was set leaves its loop without touching its
\* queue, so after the stop it takes at most the item it was already waiting
\* for, and what is on the queue when it leaves is never taken
C27_QueuedWorkAbandoned ==
    /\ [](/\ (StoppedBy("trans") \/ StoppedBy("tl")) => stop_event
          /\ StoppedBy("trans") => trans_pc = "done"
          /\ StoppedBy("tl") => tl_pc = "done")
    /\ [][/\ (stop_event /\ trans_pc = "loop" /\ trans_pc' # "loop") =>
              (trans_pc' = "done" /\ audio_queue' = audio_queue)
          /\ (stop_event /\ tl_pc = "loop" /\ tl_pc' # "loop") =>
              (tl_pc' = "done" /\ transcription_queue' = transcription_queue)
          /\ aq_got' # aq_got => (trans_pc = "get" /\ trans_pc' = "work")
          /\ tq_got' # tq_got => (tl_pc = "get" /\ tl_pc' = "call")
          /\ trans_pc = "done" => (trans_pc' = "done" /\ aq_got' = aq_got)
          /\ tl_pc = "done" => (tl_pc' = "done" /\ tq_got' = tq_got)]_vars

C27_Witness ==
    /\ StoppedBy("trans")
    /\ StoppedBy("tl")
    /\ main_pc = "done"
    /\ audio_queue # <<>>
    /\ transcription_queue # <<>>
    /\ cause["audio"] = "stop"

\* ---------------------------------------------------------- failed invocations
\* (C28) a failed or empty invocation of the recognizer or of the translator
\* forwards nothing for its item, does not set stop_event and leaves the
\* worker at the head of its loop
C28_FailedInvocationSkipped ==
    /\ [](/\ \A k \in 1..Len(asr_done) :
                asr_done[k].text = <<>> => asr_done[k].id \notin Range(tq_put)
          /\ \A j \in 1..Len(calls) :
                calls[j].outcome \in {"error", "empty"} =>
                    \A k \in 1..Len(displayed) :
                        \/ displayed[k].russian # calls[j].text
                        \/ displayed[k].english # calls[j].result)
    /\ [][/\ (Len(asr_done') > Len(asr_done)
              /\ asr_done'[Len(asr_done')].text = <<>>)
             => (trans_pc' = "loop" /\ stop_event' = stop_event)
          /\ (Len(calls') > Len(calls)
              /\ calls'[Len(calls')].outcome \in {"error", "empty"})
             => (tl_pc' = "loop" /\ stop_event' = stop_event)]_vars

C24_ExitAfterStop ==
    stop_event ~> (tts_pc \in {"done", "raised"} /\ mixer_pc = "done")

\* ----------------------------------------------------------- failed synthesis
\* (C29) a failed synthesis does not end tts_loop, and no empty waveform is
\* put on TTS_AUDIO_QUEUE
C29_FailedSynthesisSkipped ==
    /\ tts_pc # "raised"
    /\ \A k \in 1..Len(TTS_AUDIO_QUEUE) :
          TTS_AUDIO_QUEUE[k].none \/ TTS_AUDIO_QUEUE[k].val # <<>>

\* -------------------------------------------------------- sentinel propagation
\* (C30) when tts_loop leaves its loop on the sentinel it puts a sentinel on
\* TTS_AUDIO_QUEUE, and mixer_loop, unless it waits for original audio that
\* does not come, eventually leaves its loop too
C30_SentinelPropagates ==
    /\ [][(tts_pc = "get" /\ tts_pc' = "done") =>
              (/\ TTS_AUDIO_QUEUE' # <<>>
               /\ TTS_AUDIO_QUEUE'[Len(TTS_AUDIO_QUEUE')].none)]_vars
    /\ (tts_pc = "done")
          ~> (\/ mixer_pc = "done"
              \/ mixer_pc = "collect" /\ ORIGINAL_AUDIO_QUEUE = <<>>)

\* ---------------------------------------------------------------- context cap
\* (C26) the translation context has a cap: its length stays within the
\* system message and the pairs of some number of calls smaller than the
\* number of calls made
C26_ContextCapped ==
    Len(translation_context) <= 1 + 2 * (MaxCalls - 1)

\* ------------------------------------------------------------ append-only context
\* (C31) the translation context only grows at its end: at every step the
\* context before is a prefix of the context after, and its first entry is
\* always the system instruction
C31_AppendOnly ==
    /\ [](/\ translation_context # <<>>
          /\ translation_context[1] = SystemEntry)
    /\ [][/\ Len(translation_context') >= Len(translation_context)
          /\ SubSeq(translation_context', 1, Len(translation_context))
                = translation_context]_vars

C31_Witness ==
    /\ tr_pc = "idle"
    /\ \E i, j, k \in 1..Len(calls) :
          /\ calls[i].outcome = "ok"
          /\ calls[j].outcome = "error"
          /\ calls[k].outcome = "empty"
    /\ Len(translation_context) = 4

\* --------------------------------------------------------------- exact segments
\* (C32) every segment mic_stream has yielded has exactly chunk_samples
\* samples, and the k-th one is the k-th run of chunk_samples samples of what
\* was read
C32_ExactSegments ==
    /\ Len(segments) = Len(yielded)
    /\ \A k \in 1..Len(yielded) :
          /\ Len(yielded[k]) = chunk_samples
          /\ segments[k] = SubSeq(Flatten(read), (k - 1) * chunk_samples + 1,
                                  k * chunk_samples)

C32_Witness ==
    /\ Len(yielded) = 2
    /\ chunk_samples > 1
    /\ yielded[1] # yielded[2]

\* ----------------------------------------------------------- alternating context
\* (C35) whenever no translate_text call is under way, the entries after the
\* system entry alternate user, assistant, user, assistant
C35_Alternates ==
    tr_pc = "idle" =>
        /\ Len(translation_context) % 2 = 1
        /\ \A k \in 2..Len(translation_context) :
              translation_context[k].role =
                  IF k % 2 = 0 THEN "user" ELSE "assistant"

\* ------------------------------------------------------------- retained buffer
\* (C36) after every iteration of the read loop of mic_stream, audio_buffer
\* holds fewer than chunk_samples samples
C36_BufferBounded ==
    read # <<>> => Len(audio_buffer) < chunk_samples

\* -------------------------------------------------------------- empty waveform
\* (C33) while mixer_loop holds a waveform of length 0 it takes nothing from
\* ORIGINAL_AUDIO_QUEUE and gathers no original chunk; what it plays for that
\* waveform has no sample and is not a mix, and it is then back at its next
\* get
C33_EmptyWaveformSkipsMixing ==
    /\ []((mixer_pc \in {"collect", "play"} /\ tts_audio = <<>>) =>
              /\ original_chunks = <<>>
              /\ ~ENABLED MixerCollect)
    /\ [][(mixer_pc \in {"collect", "play"} /\ tts_audio = <<>>) =>
              /\ Len(ORIGINAL_AUDIO_QUEUE') >= Len(ORIGINAL_AUDIO_QUEUE)
              /\ original_chunks' = <<>>
              /\ mixer_pc' # mixer_pc =>
                    /\ mixer_pc' = "get"
                    /\ played' = Append(played, <<>>)]_vars

C33_Witness ==
    /\ mixer_pc = "get"
    /\ \E k \in 1..Len(played) : played[k] = <<>>
    /\ ORIGINAL_AUDIO_QUEUE # <<>>
    /\ ~Head(ORIGINAL_AUDIO_QUEUE).none
    /\ Len(ORIGINAL_AUDIO_QUEUE) = originals_put

\* ------------------------------------------------------------ puts during drain
\* (C34, as stated) once stop_event is set nothing more is put on audio_queue
\* or transcription_queue
C34_AsStated ==
    [][stop_event => (aq_put' = aq_put /\ tq_put' = tq_put)]_vars

\* (C34, amended) once stop_event is set a worker puts only what it had in
\* hand: the capture thread the segment that passed its test of the event,
\* the transcription worker the result of the recognition under way; at its
\* next test of the event each leaves its loop, and puts nothing afterwards
C34_OnlyWorkInHandIsPut ==
    [][/\ (stop_event /\ aq_put' # aq_put) =>
              (cap_pc = "gate" /\ cap_pc' = "next")
       /\ (stop_event /\ tq_put' # tq_put) =>
              (trans_pc = "work" /\ trans_pc' = "loop")
       /\ (stop_event /\ cap_pc = "check") => cap_pc' \in {"check", "done"}
       /\ (stop_event /\ trans_pc = "loop") => trans_pc' \in {"loop", "done"}
       /\ cap_pc = "done" => (cap_pc' = "done" /\ aq_put' = aq_put)
       /\ trans_pc = "done" => (trans_pc' = "done" /\ tq_put' = tq_put)]_vars

C34_Witness ==
    /\ stop_event
    /\ cap_pc = "gate"
    /\ ~IsSilent(yielded[Len(yielded)])
    /\ trans_pc = "work"

\* ------------------------------------------------------- waveform held for ever
\* (C37) once ORIGINAL_AUDIO_QUEUE has delivered its None, every waveform
\* mixer_loop holds from then on is eventually played, mixer_loop going on to
\* its next get; and mixer_loop leaves its loop when it takes None from
\* TTS_AUDIO_QUEUE
C37_HeldWaveformIsPlayed ==
    /\ (original_ended /\ mixer_pc = "collect")
          ~> (mixer_pc \in {"get", "done"})
    /\ [][(/\ mixer_pc = "get"
           /\ mixer_pc' # "get"
           /\ Head(TTS_AUDIO_QUEUE).none) => mixer_pc' = "done"]_vars

\* -------------------------------------------------------------- monotonic flag
\* (C38) once stop_event is set it stays set, and a loop that tests it
\* afterwards sees it set: the capture loop breaks, the two worker loops and
\* the console wait of main end
C38_StopIsMonotonic ==
    [][/\ stop_event => stop_event'
       /\ (stop_event /\ cap_pc = "check" /\ cap_pc' # "check") =>
              cap_pc' = "done"
       /\ (stop_event /\ trans_pc = "loop" /\ trans_pc' # "loop") =>
              trans_pc' = "done"
       /\ (stop_event /\ tl_pc = "loop" /\ tl_pc' # "loop") =>
              tl_pc' = "done"
       /\ (stop_event /\ mode = "console" /\ main_pc = "wait"
              /\ main_pc' # "wait") => main_pc' = "join"]_vars

C38_Witness ==
    /\ stop_event
    /\ mode = "gui"
    /\ main_pc = "done"
    /\ cause["trans"] = "error"
    /\ cause["audio"] = "stop"
    /\ cause["tl"] = "stop"

\* -------------------------------------------------------------- temporary file
\* (C39) when transcribe has returned, the temporary WAV file it created, if
\* any, has been deleted
C39_NoTempFileLeft ==
    asr_pc = "returned" => asr_result.temp # "left"

\* ------------------------------------------------------------ message handling
\* (C40) the messages handled by the UI are the first ones sent, in the order
\* sent, each once, and those waiting follow them; a run of
\* _process_message_queue happens only while the UI is running and empties
\* the queue even when handling some of its messages failed; once the window
\* is closed nothing more is handled
C40_MessagesInOrder ==
    /\ [](/\ \A k \in 1..Len(ui_shown) : ui_shown[k].seq = k
          /\ \A k \in 1..Len(message_queue) :
                message_queue[k].seq = Len(ui_shown) + k)
    /\ [][/\ ui_shown' # ui_shown =>
                /\ ui_state = "running"
                /\ message_queue' = <<>>
                /\ Len(ui_shown') = Len(ui_shown) + Len(message_queue)
                /\ SubSeq(ui_shown', 1, Len(ui_shown)) = ui_shown
          /\ ui_state = "closed" =>
                (ui_state' = "closed" /\ ui_shown' = ui_shown)]_vars

C40_Witness ==
    /\ ui_state = "closed"
    /\ Len(ui_shown) = 2
    /\ ui_shown[1].ui = "created" /\ ~ui_shown[1].ok
    /\ ui_shown[2].ui = "created" /\ ui_shown[2].ok
    /\ Len(message_queue) = 1
    /\ message_queue[1].ui = "closed"

====
